---- MODULE Spec2Model ----
(***************************************************************************)
(* Model of src/utils.js of feathers-hooks-common: the dot-notation        *)
(* accessors getByDot / setByDot, the hook guard checkContext and the      *)
(* item accessors getItems / replaceItems.                                 *)
(*                                                                         *)
(* JavaScript values are tagged records: k is the kind of the value.       *)
(* Objects and arrays carry their own properties in p (a function from     *)
(* property names to values); arrays carry their elements in e.            *)
(* Object identity is modelled by location: the place inside the root      *)
(* (or inside the hook) a returned reference points at.                    *)
(***************************************************************************)
EXTENDS Integers, Sequences, FiniteSets, TLC

VARIABLES
  obj,       \* dot accessors: the object passed as first argument (mutated in place)
  obj0,      \* dot accessors: that object as it was before the call
  path,      \* dot accessors: the path string, a sequence of characters
  value,     \* setByDot: the value argument
  ifDelete,  \* setByDot: the ifDelete argument
  dpc,       \* dot accessors: which call has been made
  setOut,    \* setByDot: [threw, loc] of the call
  got,       \* getByDot: [threw, val] of the call
  hook,      \* hook helpers: the hook object [type, method, data, result]
  pre,       \* hook helpers: the hook as it was before the last call
  op,        \* hook helpers: the last call made
  argType,   \* checkContext: the type argument
  argMethods,\* checkContext: the methods argument
  argItems,  \* replaceItems: the items argument
  outcome,   \* checkContext: "ok" or the error thrown
  ret        \* getItems: [val, ref] returned

dotVars == <<obj, obj0, path, value, ifDelete, dpc, setOut, got>>
hookVars == <<hook, pre, op, argType, argMethods, argItems, outcome, ret>>
vars == <<obj, obj0, path, value, ifDelete, dpc, setOut, got,
          hook, pre, op, argType, argMethods, argItems, outcome, ret>>

----------------------------------------------------------------------------
(* Bounds *)

\* longest path, in segments
MaxPathLen == 3

\* longest array of items / of method names
MaxLen == 2

----------------------------------------------------------------------------
(* JavaScript values *)

Undefined == [k |-> "undefined"]
Null == [k |-> "null"]
Num(n) == [k |-> "number", n |-> n]
Str(s) == [k |-> "string", s |-> s]
NoProps == [q \in {} |-> Undefined]
Obj(props) == [k |-> "object", p |-> props]
Arr(elems) == [k |-> "array", p |-> NoProps, e |-> elems]
EmptyObj == Obj(NoProps)

\* typeof v: null and arrays are 'object' too
typeof(v) == IF v.k \in {"object", "array", "null"} THEN "object" ELSE v.k

\* Array.isArray(v)
IsArray(v) == v.k = "array"

\* the truthiness of v in a condition
Truthy(v) ==
  CASE v.k \in {"undefined", "null"} -> FALSE
    [] v.k = "number" -> v.n # 0
    [] v.k = "string" -> v.s # ""
    [] OTHER -> TRUE

\* v[part] and v[part] = x raise a TypeError on null and undefined
Throws(v) == v.k \in {"undefined", "null"}

\* v.hasOwnProperty(part), v not null (array indices and length are never asked for)
HasOwn(v, part) == v.k \in {"object", "array"} /\ part \in DOMAIN v.p

\* v[part], v not null: a missing property and a property of a primitive are undefined
GetProp(v, part) == IF HasOwn(v, part) THEN v.p[part] ELSE Undefined

\* v[part] = x on an object or array
PutProp(v, part, x) ==
  [v EXCEPT !.p = [q \in (DOMAIN v.p) \cup {part} |-> IF q = part THEN x ELSE v.p[q]]]

\* delete v[part]
DelProp(v, part) == [v EXCEPT !.p = [q \in (DOMAIN v.p) \ {part} |-> v.p[q]]]

\* the value at location loc (a sequence of property names) inside v
RECURSIVE At(_, _)
At(v, loc) == IF loc = <<>> THEN v ELSE At(GetProp(v, Head(loc)), Tail(loc))

\* v with the object at location loc replaced by x (an in-place mutation of that object)
RECURSIVE ReplaceAt(_, _, _)
ReplaceAt(v, loc, x) ==
  IF loc = <<>> THEN x
  ELSE PutProp(v, Head(loc), ReplaceAt(GetProp(v, Head(loc)), Tail(loc), x))

----------------------------------------------------------------------------
(* getByDot and setByDot *)

\* path.split('.'): the segments between the dots, empty ones included
RECURSIVE SplitAcc(_, _)
SplitAcc(rest, cur) ==
  IF rest = <<>> THEN <<cur>>
  ELSE IF Head(rest) = "." THEN <<cur>> \o SplitAcc(Tail(rest), <<>>)
  ELSE SplitAcc(Tail(rest), Append(cur, Head(rest)))

Split(s) == SplitAcc(s, <<>>)

\* the reduce of getByDot: obj1 is the accumulator, parts the segments left
RECURSIVE getReduce(_, _)
getReduce(obj1, parts) ==
  IF parts = <<>> THEN [threw |-> FALSE, val |-> obj1]
  ELSE IF typeof(obj1) = "object"
       THEN IF Throws(obj1) THEN [threw |-> TRUE, val |-> Undefined]
            ELSE getReduce(GetProp(obj1, Head(parts)), Tail(parts))
       ELSE getReduce(Undefined, Tail(parts))

getByDot(o, pth) == getReduce(o, Split(pth))

\* the reduce of setByDot: root is the object being mutated, loc the place of
\* the accumulator obj1 inside it, i the index of the segment
RECURSIVE setReduce(_, _, _, _, _, _)
setReduce(root, loc, parts, i, v, del) ==
  LET obj1 == At(root, loc)
      part == parts[i]
  IN IF Throws(obj1) THEN [obj |-> root, threw |-> TRUE, loc |-> loc]
     ELSE IF i # Len(parts)
          THEN LET root2 == IF ~HasOwn(obj1, part) \/ typeof(GetProp(obj1, part)) # "object"
                            THEN ReplaceAt(root, loc, PutProp(obj1, part, EmptyObj))
                            ELSE root
               IN setReduce(root2, Append(loc, part), parts, i + 1, v, del)
          ELSE LET set == PutProp(obj1, part, v)
                   fin == IF v = Undefined /\ del THEN DelProp(set, part) ELSE set
               IN [obj |-> ReplaceAt(root, loc, fin), threw |-> FALSE, loc |-> loc]

setByDot(o, pth, v, del) == setReduce(o, <<>>, Split(pth), 1, v, del)

----------------------------------------------------------------------------
(* Inputs of the dot accessors *)

\* property names used in the objects and in the paths
Seg == {<<"a">>, <<"b">>}

\* all property maps over names with values in vals
PropMaps(names, vals) == UNION {[d -> vals] : d \in SUBSET names}

Leaves == {Null, Num(1), Arr(<<>>)}
Obj1 == {Obj(pm) : pm \in PropMaps(Seg, Leaves)}
Obj2 == {Obj(pm) : pm \in PropMaps(Seg, Leaves \cup Obj1)}
Roots == Obj2 \cup {Null, Undefined, Num(1), Str("x")}
SetValues == {Undefined, Null, Num(2), EmptyObj}

\* segs joined by dots
RECURSIVE Join(_)
Join(segs) ==
  IF Len(segs) = 1 THEN segs[1] ELSE segs[1] \o <<".">> \o Join(Tail(segs))

Paths == {Join(segs) : segs \in UNION {[1..n -> Seg] : n \in 1..MaxPathLen}}

NoSet == [threw |-> FALSE, loc |-> <<>>]
NoGot == [threw |-> FALSE, val |-> Undefined]

\* the hook helpers at rest while the dot accessors run
IdleHook == [type |-> Str("before"), method |-> Str("get"), data |-> Undefined,
             result |-> Undefined]
NoRet == [val |-> Undefined, ref |-> <<>>]

DotInit ==
  /\ hook = IdleHook
  /\ pre = IdleHook
  /\ op = "none"
  /\ argType = Undefined
  /\ argMethods = Undefined
  /\ argItems = Undefined
  /\ outcome = "ok"
  /\ ret = NoRet
  /\ obj \in Roots
  /\ obj0 = obj
  /\ path \in Paths
  /\ value \in SetValues
  /\ ifDelete \in BOOLEAN
  /\ dpc = "ready"
  /\ setOut = NoSet
  /\ got = NoGot

\* getByDot(obj, path)
GetByDot ==
  /\ dpc = "ready"
  /\ got' = getByDot(obj, path)
  /\ dpc' = "got"
  /\ UNCHANGED <<obj, obj0, path, value, ifDelete, setOut>>
  /\ UNCHANGED hookVars

\* setByDot(obj, path, value, ifDelete), obj an object as its documentation asks
SetByDot ==
  /\ dpc = "ready"
  /\ obj.k = "object"
  /\ LET r == setByDot(obj, path, value, ifDelete)
     IN /\ obj' = r.obj
        /\ setOut' = [threw |-> r.threw, loc |-> r.loc]
  /\ dpc' = "set"
  /\ UNCHANGED <<obj0, path, value, ifDelete, got>>
  /\ UNCHANGED hookVars

\* getByDot(setByDot(obj, path, value, ifDelete), path): the read of the value returned
GetReturned ==
  /\ dpc = "set"
  /\ ~setOut.threw
  /\ got' = getByDot(At(obj, setOut.loc), path)
  /\ dpc' = "roundtrip"
  /\ UNCHANGED <<obj, obj0, path, value, ifDelete, setOut>>
  /\ UNCHANGED hookVars

\* getByDot(obj, path) after setByDot(obj, path, value, ifDelete): the read of the root
GetFromRoot ==
  /\ dpc = "set"
  /\ ~setOut.threw
  /\ got' = getByDot(obj, path)
  /\ dpc' = "reread"
  /\ UNCHANGED <<obj, obj0, path, value, ifDelete, setOut>>
  /\ UNCHANGED hookVars

DotNext == GetByDot \/ SetByDot \/ GetReturned \/ GetFromRoot

----------------------------------------------------------------------------
(* checkContext, getItems and replaceItems *)

\* myMethods.indexOf(x): the 0-based index of the first x in the array, or -1
IndexOf(elems, x) ==
  IF \E i \in 1..Len(elems) : elems[i] = x
  THEN (CHOOSE i \in 1..Len(elems) : elems[i] = x /\ \A j \in 1..(i - 1) : elems[j] # x) - 1
  ELSE -1

\* checkContext without the test of myMethods.length: an empty array allows nothing
checkContextNoLength(h, type0, methods0) ==
  LET type == IF type0 = Undefined THEN Null ELSE type0
      methods == IF methods0 = Undefined THEN Arr(<<>>) ELSE methods0
      myMethods == IF IsArray(methods) THEN methods.e ELSE <<methods>>
  IN IF Truthy(type) /\ h.type # type THEN "ContextMismatch"
     ELSE IF ~Truthy(methods) THEN "ok"
     ELSE IF IndexOf(myMethods, h.method) = -1 THEN "OperationMismatch"
     ELSE "ok"

\* checkContext(hook, type, methods, label): "ok" when it returns, else the error
\* it throws: "ContextMismatch" is the 'can only be used as a ... hook' error,
\* "OperationMismatch" the 'can only be used on the ... service method(s)' error
checkContext(h, type0, methods0) ==
  LET type == IF type0 = Undefined THEN Null ELSE type0
      methods == IF methods0 = Undefined THEN Arr(<<>>) ELSE methods0
      myMethods == IF IsArray(methods) THEN methods.e ELSE <<methods>>
  IN IF Truthy(type) /\ h.type # type THEN "ContextMismatch"
     ELSE IF ~Truthy(methods) THEN "ok"
     ELSE IF Len(myMethods) > 0 /\ IndexOf(myMethods, h.method) = -1
          THEN "OperationMismatch"
          ELSE "ok"

\* getItems without the test of hook.method: data is unwrapped for every method
getItemsAnyMethod(h) ==
  LET src == IF h.type = Str("before") THEN "data" ELSE "result"
      items == h[src]
  IN IF Truthy(items) /\ Truthy(GetProp(items, "data"))
     THEN [val |-> GetProp(items, "data"), ref |-> <<src, "data">>]
     ELSE [val |-> items, ref |-> <<src>>]

\* getItems(hook): the value returned and the place in the hook it is the reference of
getItems(h) ==
  LET src == IF h.type = Str("before") THEN "data" ELSE "result"
      items == h[src]
  IN IF Truthy(items) /\ h.method = Str("find")
     THEN IF Truthy(GetProp(items, "data"))
          THEN [val |-> GetProp(items, "data"), ref |-> <<src, "data">>]
          ELSE [val |-> items, ref |-> <<src>>]
     ELSE [val |-> items, ref |-> <<src>>]

\* replaceItems that does not wrap one item into an array
replaceItemsNoWrap(h, items) ==
  IF h.type = Str("before") THEN [h EXCEPT !.data = items]
  ELSE IF h.method = Str("find") /\ Truthy(h.result) /\ Truthy(GetProp(h.result, "data"))
       THEN IF IsArray(items)
            THEN [h EXCEPT !.result =
                     PutProp(PutProp(h.result, "data", items), "total", Num(Len(items.e)))]
            ELSE [h EXCEPT !.result =
                     PutProp(PutProp(h.result, "data", items), "total", Num(1))]
       ELSE [h EXCEPT !.result = items]

\* replaceItems(hook, items): the hook after the call
replaceItems(h, items) ==
  IF h.type = Str("before") THEN [h EXCEPT !.data = items]
  ELSE IF h.method = Str("find") /\ Truthy(h.result) /\ Truthy(GetProp(h.result, "data"))
       THEN IF IsArray(items)
            THEN [h EXCEPT !.result =
                     PutProp(PutProp(h.result, "data", items), "total", Num(Len(items.e)))]
            ELSE [h EXCEPT !.result =
                     PutProp(PutProp(h.result, "data", Arr(<<items>>)), "total", Num(1))]
       ELSE [h EXCEPT !.result = items]

----------------------------------------------------------------------------
(* Inputs of the hook helpers *)

Methods == {"find", "get", "create", "update", "patch", "remove"}
MethodNames == {Str(m) : m \in Methods}

\* the type argument: omitted, null, or a hook type
TypeArgs == {Undefined, Null, Str("before"), Str("after")}

\* the methods argument: omitted, null, one name, or an array of names
ListedNames == {Str("find"), Str("update"), Str("patch")}
MethodArgs ==
  {Undefined, Null} \cup MethodNames
    \cup {Arr(ms) : ms \in UNION {[1..n -> ListedNames] : n \in 0..MaxLen}}

\* arrays of data items
ItemArrays == {Arr([i \in 1..n |-> Num(i)]) : n \in 0..MaxLen}

\* data items and other payloads: primitives, a record, records that have a data field
Payloads ==
  {Undefined, Null, Num(0), Num(5), Obj([id |-> Num(1)]),
   Obj([data |-> Arr(<<Num(1)>>), id |-> Num(1)]),
   Obj([data |-> Null, total |-> Num(0)])} \cup ItemArrays

\* paginated results of find: a page of items and the count of all the items
Envelopes == {Obj([data |-> d, total |-> Num(7), limit |-> Num(10)]) : d \in ItemArrays}

Hooks ==
  {[type |-> Str("before"), method |-> m, data |-> d, result |-> Undefined] :
     m \in MethodNames, d \in Payloads}
  \cup
  {[type |-> Str("after"), method |-> m, data |-> Undefined, result |-> r] :
     m \in MethodNames, r \in Payloads \cup Envelopes}

HookInit ==
  /\ obj = EmptyObj
  /\ obj0 = EmptyObj
  /\ path = <<"a">>
  /\ value = Undefined
  /\ ifDelete = FALSE
  /\ dpc = "idle"
  /\ setOut = NoSet
  /\ got = NoGot
  /\ hook \in Hooks
  /\ pre = hook
  /\ op = "none"
  /\ argType = Undefined
  /\ argMethods = Undefined
  /\ argItems = Undefined
  /\ outcome = "ok"
  /\ ret = NoRet

\* checkContext(hook, t, ms, label)
CheckContext ==
  \E t \in TypeArgs, ms \in MethodArgs :
    /\ outcome' = checkContext(hook, t, ms)
    /\ op' = "checkContext"
    /\ argType' = t
    /\ argMethods' = ms
    /\ argItems' = Undefined
    /\ ret' = NoRet
    /\ pre' = hook
    /\ UNCHANGED hook
    /\ UNCHANGED dotVars

\* getItems(hook)
GetItems ==
  /\ ret' = getItems(hook)
  /\ op' = "getItems"
  /\ argType' = Undefined
  /\ argMethods' = Undefined
  /\ argItems' = Undefined
  /\ outcome' = "ok"
  /\ pre' = hook
  /\ UNCHANGED hook
  /\ UNCHANGED dotVars

\* replaceItems(hook, items)
ReplaceItems ==
  \E items \in Payloads :
    /\ hook' = replaceItems(hook, items)
    /\ op' = "replaceItems"
    /\ argType' = Undefined
    /\ argMethods' = Undefined
    /\ argItems' = items
    /\ outcome' = "ok"
    /\ ret' = NoRet
    /\ pre' = hook
    /\ UNCHANGED dotVars

HookNext == CheckContext \/ GetItems \/ ReplaceItems

----------------------------------------------------------------------------
(* Specifications *)

\* the dot accessors applied to every input
SpecDot == DotInit /\ [][DotNext]_vars

\* the hook helpers called in any order on a hook
SpecHook == HookInit /\ [][HookNext]_vars

----------------------------------------------------------------------------
(* What the specification says of the dot accessors *)

\* a mapping: a plain object (not an array, not null)
IsMapping(v) == v.k = "object"

\* the value the specification gives getByDot: a lookup in a mapping, absent
\* from anything that is not a mapping
RECURSIVE SpecGet(_, _)
SpecGet(v, parts) ==
  IF parts = <<>> THEN v
  ELSE IF IsMapping(v) THEN SpecGet(GetProp(v, Head(parts)), Tail(parts))
  ELSE Undefined

\* the mapping the specification gives setByDot: an own mapping is kept on the
\* way down, anything else is replaced by a fresh empty mapping, nothing off
\* the path changes
RECURSIVE SpecSet(_, _, _, _)
SpecSet(m, parts, v, del) ==
  LET part == Head(parts)
      child == IF HasOwn(m, part) /\ IsMapping(GetProp(m, part))
               THEN GetProp(m, part) ELSE EmptyObj
  IN IF Len(parts) = 1
     THEN IF v = Undefined /\ del THEN DelProp(m, part) ELSE PutProp(m, part, v)
     ELSE PutProp(m, part, SpecSet(child, Tail(parts), v, del))

\* no intermediate segment of parts collides with a value of m that is not a mapping
RECURSIVE NoCollision(_, _)
NoCollision(m, parts) ==
  \/ Len(parts) = 1
  \/ ~HasOwn(m, Head(parts))
  \/ /\ IsMapping(GetProp(m, Head(parts)))
     /\ NoCollision(GetProp(m, Head(parts)), Tail(parts))

\* the segments before the last one
Front(parts) == SubSeq(parts, 1, Len(parts) - 1)
Last(parts) == parts[Len(parts)]

\* C1: setByDot returns root itself (the object passed as first argument), not
\* a mapping nested inside it, for every path, value and ifDelete.
C1_ReturnsRoot == (dpc = "set" /\ ~setOut.threw) => setOut.loc = <<>>

\* C1 holds of the paths of one segment only.
C1_OneSegmentReturnsRoot ==
  (dpc = "set" /\ ~setOut.threw /\ Len(Split(path)) = 1) => setOut.loc = <<>>

\* C2: round trip: where no intermediate segment of the path collides with a
\* non-mapping value, getByDot(setByDot(m, p, v, false), p) is v.
C2_RoundTrip ==
  (dpc = "roundtrip" /\ ~ifDelete /\ NoCollision(obj0, Split(path)))
    => (~got.threw /\ got.val = value)

\* What C2 says holds of the root that setByDot has mutated, read in place of
\* the value setByDot returns.
C2_RoundTripOnRoot ==
  (dpc = "reread" /\ ~ifDelete /\ NoCollision(obj0, Split(path)))
    => (~got.threw /\ got.val = value)

\* C3: getByDot never raises: it looks the segment up in a mapping, yields
\* the absent marker from anything else (a number, a string, null, undefined),
\* and leaves root as it was.
C3_GetNeverRaises ==
  dpc = "got" => (~got.threw /\ got.val = SpecGet(obj0, Split(path)) /\ obj = obj0)

\* What setByDot leaves in root when the value is undefined: with ifDelete
\* the last key is gone from its parent, without it the key is there holding
\* undefined; the objects on the way to it stay.
C4_RootAfterUndefined ==
  (dpc = "set" /\ ~setOut.threw /\ value = Undefined) =>
    LET parts == Split(path)
        parent == At(obj, Front(parts))
    IN /\ ifDelete => ~HasOwn(parent, Last(parts))
       /\ ~ifDelete => (HasOwn(parent, Last(parts)) /\ GetProp(parent, Last(parts)) = Undefined)
       /\ \A i \in 0..(Len(parts) - 1) : typeof(At(obj, SubSeq(parts, 1, i))) = "object"

\* C4: with value undefined and ifDelete the last key is removed from its
\* parent and the mappings created on the way stay in root; setByDot({}, 'a.b.a',
\* undefined, true) yields {a: {b: {}}}, not {}; without ifDelete the last key
\* stays, holding undefined.
C4_DeleteKeepsIntermediates ==
  /\ C4_RootAfterUndefined
  /\ (dpc = "set" /\ obj0 = EmptyObj /\ value = Undefined /\ ifDelete
        /\ path = <<"a", ".", "b", ".", "a">>)
       => At(obj, setOut.loc)
            = Obj([q \in {<<"a">>} |-> Obj([r \in {<<"b">>} |-> EmptyObj])])

\* C9: on the way down setByDot keeps an own value that is a mapping and
\* replaces anything else by a fresh empty mapping; every key off the path
\* keeps its value.
C9_IntermediatesAndFrame ==
  dpc = "set" =>
    (~setOut.threw /\ obj = SpecSet(obj0, Split(path), value, ifDelete))

----------------------------------------------------------------------------
(* What the specification says of the hook helpers *)

\* the allowed operations, from one name or an array of names; none when omitted or null
AllowedSet(ms) ==
  IF ms \in {Undefined, Null} THEN {}
  ELSE IF IsArray(ms) THEN {ms.e[i] : i \in 1..Len(ms.e)}
  ELSE {ms}

\* C5: checkContext fails with ContextMismatch iff the expected type is not
\* null and differs from the hook's; otherwise with OperationMismatch iff the
\* set of allowed methods is not empty and lacks the hook's method; otherwise it
\* succeeds. The hook is never mutated.
C5_CheckContextOutcome ==
  op = "checkContext" =>
    /\ hook = pre
    /\ outcome =
         IF argType \notin {Undefined, Null} /\ pre.type # argType THEN "ContextMismatch"
         ELSE IF AllowedSet(argMethods) # {} /\ pre.method \notin AllowedSet(argMethods)
              THEN "OperationMismatch"
              ELSE "ok"

\* checkContext has refused a hook of the right type for its method, and the
\* methods were given as an array
C5_Witness ==
  /\ op = "checkContext"
  /\ outcome = "OperationMismatch"
  /\ IsArray(argMethods)
  /\ argType = pre.type

\* C6: in a before hook getItems returns hook.data itself, whatever the
\* method and whatever hook.data holds, and leaves the hook as it was.
C6_BeforeReturnsData ==
  (op = "getItems" /\ pre.type = Str("before")) =>
    (ret = [val |-> pre.data, ref |-> <<"data">>] /\ hook = pre)

\* C7: in an after hook getItems returns result.data exactly when the method
\* is find and result is truthy and has a data field, whatever that field
\* holds; in every other case it returns result.
C7_AfterAnyDataField ==
  (op = "getItems" /\ pre.type = Str("after")) =>
    ret = IF pre.method = Str("find") /\ Truthy(pre.result) /\ HasOwn(pre.result, "data")
          THEN [val |-> GetProp(pre.result, "data"), ref |-> <<"result", "data">>]
          ELSE [val |-> pre.result, ref |-> <<"result">>]

\* C7 as amended: in an after hook getItems returns result.data exactly when
\* the method is find and result is truthy and result.data is truthy (an
\* empty array is); in every other case it returns result.
C7_AfterTruthyData ==
  (op = "getItems" /\ pre.type = Str("after")) =>
    ret = IF pre.method = Str("find") /\ Truthy(pre.result)
             /\ Truthy(GetProp(pre.result, "data"))
          THEN [val |-> GetProp(pre.result, "data"), ref |-> <<"result", "data">>]
          ELSE [val |-> pre.result, ref |-> <<"result">>]

\* getItems has returned the empty page of a paginated find
C7_Witness ==
  /\ op = "getItems"
  /\ pre.type = Str("after")
  /\ pre.method = Str("find")
  /\ ret = [val |-> Arr(<<>>), ref |-> <<"result", "data">>]

\* the effects of replaceItems(h0, items) on h1, paginated saying where the
\* result of find is a paginated envelope
ReplaceEffects(h0, items, h1, paginated) ==
  IF h0.type = Str("before")
  THEN h1.data = items /\ h1.result = h0.result
  ELSE /\ h1.data = h0.data
       /\ IF h0.method = Str("find") /\ paginated
          THEN /\ h1.result.k = h0.result.k
               /\ DOMAIN h1.result.p = DOMAIN h0.result.p \cup {"data", "total"}
               /\ \A q \in DOMAIN h0.result.p \ {"data", "total"} :
                    h1.result.p[q] = h0.result.p[q]
               /\ h1.result.p["data"] = IF IsArray(items) THEN items ELSE Arr(<<items>>)
               /\ h1.result.p["total"] = IF IsArray(items) THEN Num(Len(items.e)) ELSE Num(1)
               /\ h1.result.p["total"] = Num(Len(h1.result.p["data"].e))
          ELSE h1.result = items

\* C8: replaceItems sets data in a before hook; keeps the envelope of a
\* paginated find, a result that has a data field, setting its data to the items
\* (or to [items]) and its total to their number; else overwrites result.
C8_ReplaceAnyDataField ==
  op = "replaceItems" =>
    /\ hook.type = pre.type /\ hook.method = pre.method
    /\ ReplaceEffects(pre, argItems, hook, HasOwn(pre.result, "data"))

\* C8 as amended: the envelope is kept where result is truthy and result.data
\* is truthy; a result whose data field holds a falsy value is overwritten.
C8_ReplaceTruthyData ==
  op = "replaceItems" =>
    /\ hook.type = pre.type /\ hook.method = pre.method
    /\ ReplaceEffects(pre, argItems, hook,
                      Truthy(pre.result) /\ Truthy(GetProp(pre.result, "data")))

\* replaceItems has put one item that is not an array into a paginated find
C8_Witness ==
  /\ op = "replaceItems"
  /\ pre.type = Str("after")
  /\ pre.method = Str("find")
  /\ pre.result \in Envelopes
  /\ argItems = Num(5)
  /\ hook.result = Obj([data |-> Arr(<<Num(5)>>), total |-> Num(1), limit |-> Num(10)])

\* C10: getItems right after replaceItems(hook, items) returns items, or
\* [items] for items that are not an array put into a paginated find; also
\* when items is a mapping that has a data field.
C10_GetAfterReplace ==
  op = "replaceItems" =>
    getItems(hook).val =
      IF pre.type = Str("after") /\ pre.method = Str("find")
         /\ Truthy(pre.result) /\ Truthy(GetProp(pre.result, "data"))
         /\ ~IsArray(argItems)
      THEN Arr(<<argItems>>)
      ELSE argItems

\* C10 holds of the hooks whose method is not find.
C10_GetAfterReplaceNotFind ==
  (op = "replaceItems" /\ pre.method # Str("find")) => getItems(hook).val = argItems

====
